---- MODULE Spec2Model ----
(***************************************************************************)
(* A model of midi_to_json_score (src/main.py), the conversion of a        *)
(* multi-track MIDI file into a 7-lane chart.                              *)
(*                                                                         *)
(* A MIDI message is a record [type, time, note, velocity, tempo, name];   *)
(* time is the delta time in ticks.  A bpm is kept in thousandths          *)
(* (120 bpm is 120000), which is what round(..., 3) leaves of it.          *)
(***************************************************************************)
EXTENDS Integers, Sequences, FiniteSets, TLC

\* ---------------------------------------------------------------- bounds

\* The inputs are all files of at most two tracks holding at most MaxMsgs
\* messages altogether.
MaxMsgs == 4

\* The delta times, the resolutions and the tempo values (microseconds per
\* beat) the input files are built from.
Deltas == {0, 1}
Resolutions == {1}
Tempos == {400000, 700000}

\* --------------------------------------------------- configuration (9-15)

FORMAT_VERSION == 1
NOTE_RANGE_START == 53
NOTE_RANGE_END == 59
CRITICAL_VELOCITY_THRESHOLD == 120
DEFAULT_OFFSET == 0
DefaultBpm == 120000

\* ------------------------------------------------------------- messages

SetTempo(d, t) ==
    [type |-> "set_tempo", time |-> d, note |-> 0, velocity |-> 0,
     tempo |-> t, name |-> ""]

TrackName(d, n) ==
    [type |-> "track_name", time |-> d, note |-> 0, velocity |-> 0,
     tempo |-> 0, name |-> n]

NoteOn(d, p, v) ==
    [type |-> "note_on", time |-> d, note |-> p, velocity |-> v,
     tempo |-> 0, name |-> ""]

NoteOff(d, p) ==
    [type |-> "note_off", time |-> d, note |-> p, velocity |-> 0,
     tempo |-> 0, name |-> ""]

IsMeta(msg) == msg.type \in {"set_tempo", "track_name"}

\* mido.tempo2bpm followed by round(_, 3): 60000000 / tempo, in thousandths,
\* by long division (three decimal digits), the rest rounded half to even.
RECURSIVE Digits(_, _, _, _)
Digits(q, r, tempo, n) ==
    IF n = 0 THEN <<q, r>>
    ELSE Digits(q * 10 + ((r * 10) \div tempo), (r * 10) % tempo, tempo, n - 1)

Tempo2Bpm(tempo) ==
    LET qr == Digits(60000000 \div tempo, 60000000 % tempo, tempo, 3)
        q == qr[1]
        r == qr[2]
    IN  IF 2 * r > tempo THEN q + 1
        ELSE IF 2 * r < tempo THEN q
        ELSE IF q % 2 = 0 THEN q ELSE q + 1

\* ---------------------------------------------------------- merge_tracks

\* mido.merge_tracks: the messages of all tracks with absolute times, sorted
\* by time (a stable sort, so messages of one tick keep the order of the
\* tracks and of each track), then given delta times again.  The
\* end_of_track messages it moves to the end reach no branch of the loop and
\* are left out of the tracks here.

\* _to_abstime: the running sum of the delta times of one track.
RECURSIVE ToAbsTime(_, _)
ToAbsTime(track, now) ==
    IF track = <<>> THEN <<>>
    ELSE LET t == now + Head(track).time
         IN  <<[Head(track) EXCEPT !.time = t]>> \o ToAbsTime(Tail(track), t)

\* The messages of all tracks, in track order, with absolute times.
RECURSIVE Flatten(_)
Flatten(tracks) ==
    IF tracks = <<>> THEN <<>>
    ELSE ToAbsTime(Head(tracks), 0) \o Flatten(Tail(tracks))

\* messages.sort(key=lambda msg: msg.time): a stable sort, as an insertion
\* behind the last element whose time is not greater.
RECURSIVE InsertByTime(_, _)
InsertByTime(sorted, msg) ==
    IF sorted = <<>> THEN <<msg>>
    ELSE IF sorted[Len(sorted)].time <= msg.time THEN Append(sorted, msg)
    ELSE Append(InsertByTime(SubSeq(sorted, 1, Len(sorted) - 1), msg),
                sorted[Len(sorted)])

RECURSIVE SortByTime(_)
SortByTime(msgs) ==
    IF msgs = <<>> THEN <<>>
    ELSE InsertByTime(SortByTime(SubSeq(msgs, 1, Len(msgs) - 1)),
                      msgs[Len(msgs)])

\* _to_reltime: back to delta times.
RECURSIVE ToRelTime(_, _)
ToRelTime(msgs, now) ==
    IF msgs = <<>> THEN <<>>
    ELSE <<[Head(msgs) EXCEPT !.time = Head(msgs).time - now]>>
         \o ToRelTime(Tail(msgs), Head(msgs).time)

MergeTracks(tracks) == ToRelTime(SortByTime(Flatten(tracks)), 0)

\* ---------------------------------------------------------------- inputs

\* The messages the input files are built from: tempo changes, a track name
\* and one note for Spec; for SpecNotes notes of both ends of the lane range
\* and of both sides of the critical velocity, a note-on of velocity 0, the
\* pitches next to the range, and a tempo change.
MetaMsgs ==
    {SetTempo(d, t) : d \in Deltas, t \in Tempos}
    \cup {TrackName(d, "Song A") : d \in Deltas}
    \cup {NoteOn(d, 53, 120) : d \in Deltas}
    \cup {NoteOff(d, 53) : d \in Deltas}

NoteMsgs ==
    {NoteOn(d, 53, 119) : d \in Deltas} \cup {NoteOn(d, 53, 120) : d \in Deltas}
    \cup {NoteOn(d, 59, 120) : d \in Deltas}
    \cup {NoteOff(d, p) : d \in Deltas, p \in {53, 59}}
    \cup {NoteOn(1, 53, 0), NoteOn(1, 60, 120), NoteOn(1, 52, 120),
          NoteOff(1, 60), SetTempo(1, 400000)}

\* The file at midi_path: one mido cannot read, or a parsed file.
Unreadable == [ok |-> FALSE, ticks_per_beat |-> 0, tracks |-> <<>>]

Parsed(r, ts) == [ok |-> TRUE, ticks_per_beat |-> r, tracks |-> ts]

\* The tracks of length n over the messages U.
Tracks(U, n) == [1..n -> U]

\* ----------------------------------------------------------------- state

VARIABLES
    midi_file,          \* the file at midi_path (the input)
    out_file,           \* the file at output_path
    pc,                 \* the position in midi_to_json_score
    tpb,
    initial_bpm,
    title,
    found_first_tempo,
    scan_pos,           \* the position of the loop over mid.tracks[0]
    merged,             \* mido.merge_tracks(mid.tracks)
    loop_pos,           \* the position of the loop over merged
    current_tick,
    active_notes,       \* note -> [tick, velocity]
    notes_data,
    final_json,
    raised,             \* the exception that left the function, "" if none
    spans               \* history: [lane, tick, end] of every note emitted

vars == <<midi_file, out_file, pc, tpb, initial_bpm, title, found_first_tempo,
          scan_pos, merged, loop_pos, current_tick, active_notes, notes_data,
          final_json, raised, spans>>

NoChart == [version |-> 0, title |-> "", bpm |-> 0, tpb |-> 0, offset |-> 0,
            notes |-> <<>>]

\* active_notes = {}
NoActiveNotes == [n \in {} |-> [tick |-> 0, velocity |-> 0]]

OldFile == [kind |-> "old", data |-> <<>>]

\* midi_file is unreadable, or a file of no track, of one track or (when
\* twoTracks) of two, over the messages U, of at most MaxMsgs messages.
FileOver(U, twoTracks) ==
    \/ midi_file = Unreadable
    \/ \E r \in Resolutions :
        \/ midi_file = Parsed(r, <<>>)
        \/ \E n \in 0..MaxMsgs : \E t \in Tracks(U, n) :
             midi_file = Parsed(r, <<t>>)
        \/ /\ twoTracks
           /\ \E n0 \in 0..MaxMsgs : \E n1 \in 0..(MaxMsgs - n0) :
                \E t0 \in Tracks(U, n0) : \E t1 \in Tracks(U, n1) :
                  midi_file = Parsed(r, <<t0, t1>>)

InitOver(U, twoTracks) ==
    /\ FileOver(U, twoTracks)
    /\ out_file = OldFile
    /\ pc = "open"
    /\ tpb = 0
    /\ initial_bpm = 0
    /\ title = ""
    /\ found_first_tempo = FALSE
    /\ scan_pos = 0
    /\ merged = <<>>
    /\ loop_pos = 0
    /\ current_tick = 0
    /\ active_notes = NoActiveNotes
    /\ notes_data = <<>>
    /\ final_json = NoChart
    /\ raised = ""
    /\ spans = <<>>

\* ------------------------------------------- the handlers of the main loop

\* As TempoSeen, the check of an earlier entry on the tick left out.
TempoSeen_Never(data, tick) == FALSE

\* any(e.get('type') == '_bpm' and e.get('tick') == current_tick ...)
TempoSeen(data, tick) ==
    \E i \in 1..Len(data) : data[i].type = "_bpm" /\ data[i].tick = tick

\* The set_tempo branch: notes_data after it.
OnSetTempo(data, msg, tick) ==
    IF ~TempoSeen(data, tick) /\ tick > 0
    THEN Append(data, [type |-> "_bpm", tick |-> tick, bpm |-> Tempo2Bpm(msg.tempo)])
    ELSE data

\* As InLaneRange, without the upper end of the range.
InLaneRange_NoUpperEnd(note) == NOTE_RANGE_START <= note

InLaneRange(note) == NOTE_RANGE_START <= note /\ note <= NOTE_RANGE_END

\* As OnNoteOn, a note-on of a pitch with an active state keeping that state.
OnNoteOn_KeepFirst(active, msg, tick) ==
    IF InLaneRange(msg.note) /\ msg.note \notin DOMAIN active
    THEN [n \in DOMAIN active \cup {msg.note} |->
            IF n = msg.note THEN [tick |-> tick, velocity |-> msg.velocity]
            ELSE active[n]]
    ELSE active

\* The note-on branch: active_notes after it.
OnNoteOn(active, msg, tick) ==
    IF InLaneRange(msg.note)
    THEN [n \in DOMAIN active \cup {msg.note} |->
            IF n = msg.note THEN [tick |-> tick, velocity |-> msg.velocity]
            ELSE active[n]]
    ELSE active

\* As Pop, the active state read and left in place.
Pop_Keep(active, note) == active

\* active_notes.pop(msg.note): active_notes after it.
Pop(active, note) == [n \in DOMAIN active \ {note} |-> active[n]]

NoteType(velocity) ==
    IF velocity >= CRITICAL_VELOCITY_THRESHOLD THEN "critical" ELSE "normal"

\* As IsLong, a note of exactly one beat long too.
IsLong_FromOneBeat(duration, ticks_per_beat) == duration >= ticks_per_beat

IsLong(duration, ticks_per_beat) == duration > ticks_per_beat

\* note_event, from the popped note-on and the tick of the note-off.
NoteEvent(note, start_note, tick, ticks_per_beat) ==
    LET duration == tick - start_note.tick
    IN  IF IsLong(duration, ticks_per_beat)
        THEN [lane |-> note - NOTE_RANGE_START, tick |-> start_note.tick,
              type |-> "long", duration |-> duration]
        ELSE [lane |-> note - NOTE_RANGE_START, tick |-> start_note.tick,
              type |-> NoteType(start_note.velocity)]

\* As OnNoteOff, without the check of a duration of 0.
OnNoteOff_ZeroKept(data, active, msg, tick, ticks_per_beat) ==
    Append(data, NoteEvent(msg.note, active[msg.note], tick, ticks_per_beat))

\* The note-off branch for a note with an active note-on: notes_data after it.
OnNoteOff(data, active, msg, tick, ticks_per_beat) ==
    LET start_note == active[msg.note]
    IN  IF tick - start_note.tick = 0 THEN data
        ELSE Append(data, NoteEvent(msg.note, start_note, tick, ticks_per_beat))

IsNoteOn(msg) == msg.type = "note_on" /\ msg.velocity > 0

IsNoteOff(msg) ==
    msg.type = "note_off" \/ (msg.type = "note_on" /\ msg.velocity = 0)

\* ------------------------------------------------------------- the sort

\* key=lambda x: (x['tick'], 0 if x['type'] == '_bpm' else 1)
Category(e) == IF e.type = "_bpm" THEN 0 ELSE 1

\* As KeyLessEq, strict: entries of equal key change places.
KeyLessEq_Strict(a, b) ==
    a.tick < b.tick \/ (a.tick = b.tick /\ Category(a) < Category(b))

KeyLessEq(a, b) ==
    a.tick < b.tick \/ (a.tick = b.tick /\ Category(a) <= Category(b))

\* list.sort is stable: an element goes behind the last one not greater.
RECURSIVE InsertByKey(_, _)
InsertByKey(sorted, e) ==
    IF sorted = <<>> THEN <<e>>
    ELSE IF KeyLessEq(sorted[Len(sorted)], e) THEN Append(sorted, e)
    ELSE Append(InsertByKey(SubSeq(sorted, 1, Len(sorted) - 1), e),
                sorted[Len(sorted)])

RECURSIVE SortNotes(_)
SortNotes(data) ==
    IF data = <<>> THEN <<>>
    ELSE InsertByKey(SortNotes(SubSeq(data, 1, Len(data) - 1)), data[Len(data)])

\* What json.dump writes, piece by piece: the header fields, then the entries
\* of "notes" in order.
Serialize(chart) ==
    <<[version |-> chart.version, title |-> chart.title, bpm |-> chart.bpm,
       tpb |-> chart.tpb, offset |-> chart.offset]>> \o chart.notes

\* -------------------------------------------------------------- actions

\* Lines 29-42: mido.MidiFile(midi_path) and the defaults.
OpenMidi ==
    /\ pc = "open"
    /\ IF ~midi_file.ok
       THEN /\ raised' = "IOError: read"
            /\ pc' = "raised"
            /\ UNCHANGED <<tpb, initial_bpm, title, scan_pos>>
       ELSE /\ tpb' = midi_file.ticks_per_beat
            /\ initial_bpm' = DefaultBpm
            /\ title' = "basename"
            /\ scan_pos' = 1
            /\ pc' = "scan"
            /\ UNCHANGED raised
    /\ UNCHANGED <<midi_file, out_file, found_first_tempo, merged, loop_pos,
                   current_tick, active_notes, notes_data, final_json, spans>>

\* Line 44, mid.tracks[0] of a file without tracks: an IndexError.
NoTrack0 ==
    /\ pc = "scan"
    /\ midi_file.tracks = <<>>
    /\ raised' = "IndexError"
    /\ pc' = "raised"
    /\ UNCHANGED <<midi_file, out_file, tpb, initial_bpm, title,
                   found_first_tempo, scan_pos, merged, loop_pos, current_tick,
                   active_notes, notes_data, final_json, spans>>

\* Lines 44-49: one message of the metadata track.
ScanTrack0 ==
    /\ pc = "scan"
    /\ midi_file.tracks # <<>>
    /\ scan_pos <= Len(midi_file.tracks[1])
    /\ LET msg == midi_file.tracks[1][scan_pos]
           first == IsMeta(msg) /\ msg.type = "set_tempo" /\ ~found_first_tempo
       IN  /\ initial_bpm' = IF first THEN Tempo2Bpm(msg.tempo) ELSE initial_bpm
           /\ found_first_tempo' = (found_first_tempo \/ first)
           /\ title' = IF IsMeta(msg) /\ msg.type = "track_name"
                       THEN msg.name ELSE title
    /\ scan_pos' = scan_pos + 1
    /\ UNCHANGED <<midi_file, out_file, pc, tpb, merged, loop_pos, current_tick,
                   active_notes, notes_data, final_json, raised, spans>>

\* Lines 52-56: the metadata track is read; the tracks are merged.
StartLoop ==
    /\ pc = "scan"
    /\ midi_file.tracks # <<>>
    /\ scan_pos > Len(midi_file.tracks[1])
    /\ active_notes' = NoActiveNotes
    /\ current_tick' = 0
    /\ merged' = MergeTracks(midi_file.tracks)
    /\ loop_pos' = 1
    /\ pc' = "loop"
    /\ UNCHANGED <<midi_file, out_file, tpb, initial_bpm, title,
                   found_first_tempo, scan_pos, notes_data, final_json, raised,
                   spans>>

\* Lines 57-108: one message of the merged track.
LoopStep ==
    /\ pc = "loop"
    /\ loop_pos <= Len(merged)
    /\ LET msg == merged[loop_pos]
           tick == current_tick + msg.time
       IN  /\ current_tick' = tick
           /\ IF IsMeta(msg) /\ msg.type = "set_tempo"
              THEN /\ notes_data' = OnSetTempo(notes_data, msg, tick)
                   /\ UNCHANGED active_notes
              ELSE IF IsNoteOn(msg)
              THEN /\ active_notes' = OnNoteOn(active_notes, msg, tick)
                   /\ UNCHANGED notes_data
              ELSE IF IsNoteOff(msg) /\ msg.note \in DOMAIN active_notes
              THEN /\ active_notes' = Pop(active_notes, msg.note)
                   /\ notes_data' = OnNoteOff(notes_data, active_notes, msg,
                                              tick, tpb)
              ELSE UNCHANGED <<active_notes, notes_data>>
           /\ spans' =
                IF /\ Len(notes_data') > Len(notes_data)
                   /\ notes_data'[Len(notes_data')].type # "_bpm"
                THEN Append(spans,
                            [lane |-> notes_data'[Len(notes_data')].lane,
                             tick |-> notes_data'[Len(notes_data')].tick,
                             end |-> tick])
                ELSE spans
    /\ loop_pos' = loop_pos + 1
    /\ UNCHANGED <<midi_file, out_file, pc, tpb, initial_bpm, title,
                   found_first_tempo, scan_pos, merged, final_json, raised>>

\* Lines 111-121: the sort and final_json.
BuildChart ==
    /\ pc = "loop"
    /\ loop_pos > Len(merged)
    /\ notes_data' = SortNotes(notes_data)
    /\ final_json' = [version |-> FORMAT_VERSION, title |-> title,
                      bpm |-> initial_bpm, tpb |-> tpb,
                      offset |-> DEFAULT_OFFSET, notes |-> notes_data']
    /\ pc' = "write"
    /\ UNCHANGED <<midi_file, out_file, tpb, initial_bpm, title,
                   found_first_tempo, scan_pos, merged, loop_pos, current_tick,
                   active_notes, raised, spans>>

\* Line 125, open(output_path, 'w'): the file is truncated, or the open fails
\* and leaves it alone.
OpenOutput ==
    /\ pc = "write"
    /\ \/ /\ out_file' = [kind |-> "new", data |-> <<>>]
          /\ pc' = "dump"
          /\ UNCHANGED raised
       \/ /\ raised' = "IOError: write"
          /\ pc' = "raised"
          /\ UNCHANGED out_file
    /\ UNCHANGED <<midi_file, tpb, initial_bpm, title, found_first_tempo,
                   scan_pos, merged, loop_pos, current_tick, active_notes,
                   notes_data, final_json, spans>>

\* Lines 126-130, json.dump: everything is written and final_json returned, or
\* a write fails after some of it.
Dump ==
    /\ pc = "dump"
    /\ \/ /\ out_file' = [kind |-> "new", data |-> Serialize(final_json)]
          /\ pc' = "returned"
          /\ UNCHANGED raised
       \/ \E k \in 0..(Len(Serialize(final_json)) - 1) :
            /\ out_file' = [kind |-> "new",
                            data |-> SubSeq(Serialize(final_json), 1, k)]
            /\ raised' = "IOError: write"
            /\ pc' = "raised"
    /\ UNCHANGED <<midi_file, tpb, initial_bpm, title, found_first_tempo,
                   scan_pos, merged, loop_pos, current_tick, active_notes,
                   notes_data, final_json, spans>>

Next ==
    \/ OpenMidi
    \/ NoTrack0
    \/ ScanTrack0
    \/ StartLoop
    \/ LoopStep
    \/ BuildChart
    \/ OpenOutput
    \/ Dump

\* The files of metadata and a note, in up to two tracks.
Init == InitOver(MetaMsgs, TRUE)

Spec == Init /\ [][Next]_vars

\* The files of notes in one track.
InitNotes == InitOver(NoteMsgs, FALSE)

SpecNotes == InitNotes /\ [][Next]_vars

\* ------------------------------------------------ the merged stream, read

\* The absolute tick of the i-th message of the merged track.
RECURSIVE TickAt(_)
TickAt(i) == IF i = 0 THEN 0 ELSE TickAt(i - 1) + merged[i].time

\* The number of merged messages the loop has processed.
Processed == IF pc = "loop" THEN loop_pos - 1 ELSE Len(merged)

InLoop == pc = "loop"

LanePitches == 53..59

StartsNote(i) ==
    /\ merged[i].type = "note_on"
    /\ merged[i].velocity > 0
    /\ merged[i].note \in LanePitches

EndsNote(j) ==
    \/ merged[j].type = "note_off"
    \/ merged[j].type = "note_on" /\ merged[j].velocity = 0

\* The note-on an off message j pairs with: the most recent note-on of its
\* pitch before j, when no off message of that pitch lies between them; 0 when
\* there is none.
PairOf(j) ==
    LET ons == {i \in 1..(j - 1) :
                  StartsNote(i) /\ merged[i].note = merged[j].note}
        last == CHOOSE i \in ons : \A k \in ons : k <= i
    IN  IF ons = {} THEN 0
        ELSE IF \E k \in (last + 1)..(j - 1) :
                  EndsNote(k) /\ merged[k].note = merged[j].note
             THEN 0
             ELSE last

Emits(j) == EndsNote(j) /\ PairOf(j) # 0 /\ TickAt(j) # TickAt(PairOf(j))

\* What the pairing rule emits for the first n messages: lane, start tick and
\* velocity of the paired note-on, in the order of the off messages.
RECURSIVE PairedNotes(_)
PairedNotes(n) ==
    IF n = 0 THEN <<>>
    ELSE PairedNotes(n - 1) \o
         (IF Emits(n)
          THEN <<[lane |-> merged[n].note - 53, tick |-> TickAt(PairOf(n)),
                  velocity |-> merged[PairOf(n)].velocity,
                  end |-> TickAt(n)]>>
          ELSE <<>>)

\* The active state the pairing rule leaves after the first n messages.
PairedActive(n) ==
    LET open(p) == {i \in 1..n :
                      /\ StartsNote(i) /\ merged[i].note = p
                      /\ \A k \in (i + 1)..n :
                           /\ ~(StartsNote(k) /\ merged[k].note = p)
                           /\ ~(EndsNote(k) /\ merged[k].note = p)}
    IN  [p \in {q \in LanePitches : open(q) # {}} |->
            LET i == CHOOSE i \in open(p) : TRUE
            IN  [tick |-> TickAt(i), velocity |-> merged[i].velocity]]

IsNote(e) == e.type # "_bpm"

IsTempo(e) == e.type = "_bpm"

EmittedNotes == SelectSeq(notes_data, IsNote)

EmittedTempos == SelectSeq(notes_data, IsTempo)

\* C1: after every message of the merged stream the notes emitted so far are
\* those of the per-pitch pairing rule, in the order of their off messages,
\* each with the lane of its pitch, the start tick of the most recent note-on
\* of its pitch and (when not long) the type that note-on's velocity gives;
\* and the active state is that of the note-ons not yet followed by an off.
C1_PairingRule ==
    InLoop =>
        LET exp == PairedNotes(Processed)
            got == EmittedNotes
        IN  /\ Len(got) = Len(exp)
            /\ \A i \in 1..Len(exp) :
                 /\ got[i].lane = exp[i].lane
                 /\ got[i].tick = exp[i].tick
                 /\ got[i].type # "long" =>
                      (got[i].type = "critical" <=> exp[i].velocity >= 120)
            /\ active_notes = PairedActive(Processed)

\* A retriggered note-on was overwritten and its note lost: two note-ons of
\* pitch 53 at different ticks, then the off; one note, of the second.
C1_Witness ==
    /\ InLoop /\ Processed >= 3
    /\ StartsNote(1) /\ StartsNote(2) /\ EndsNote(3)
    /\ merged[1].note = 53 /\ merged[2].note = 53 /\ merged[3].note = 53
    /\ merged[1].velocity # merged[2].velocity
    /\ TickAt(1) < TickAt(2) /\ TickAt(2) < TickAt(3)
    /\ Len(EmittedNotes) >= 1
    /\ EmittedNotes[1].tick = TickAt(2)

\* -------------------------------------------------------------- the sort

Count(seq, e) == Cardinality({i \in 1..Len(seq) : seq[i] = e})

Elements(seq) == {seq[i] : i \in 1..Len(seq)}

SameEntries(a, b) ==
    /\ Len(a) = Len(b)
    /\ \A e \in Elements(a) \cup Elements(b) : Count(a, e) = Count(b, e)

\* The entries of sorted are those of emitted, ascending by tick, tempo before
\* note on one tick, and in the order of emitted within one tick and category.
SortedAsClaimed(emitted, sorted) ==
    /\ SameEntries(emitted, sorted)
    /\ \A i, j \in 1..Len(sorted) :
         i < j =>
            /\ sorted[i].tick <= sorted[j].tick
            /\ sorted[i].tick = sorted[j].tick =>
                 ~(IsNote(sorted[i]) /\ IsTempo(sorted[j]))
    /\ \A i, j \in 1..Len(emitted) :
         /\ i < j
         /\ emitted[i].tick = emitted[j].tick
         /\ IsTempo(emitted[i]) = IsTempo(emitted[j])
         => \E k, l \in 1..Len(sorted) :
              k < l /\ sorted[k] = emitted[i] /\ sorted[l] = emitted[j]

\* C2: the 'notes' of the chart are the emitted entries sorted ascending by
\* tick, every tempo entry before every note entry of the same tick, and
\* entries of one tick and one category in the order they were emitted in.
C2_SortedStable ==
    [][pc = "loop" /\ pc' = "write" =>
         /\ SortedAsClaimed(notes_data, notes_data')
         /\ final_json'.notes = notes_data']_vars

\* A chart with two notes of one tick, the higher lane first: its off message
\* came first.
C2_Witness ==
    /\ pc = "write"
    /\ \E i, j \in 1..Len(final_json.notes) :
         /\ i < j
         /\ final_json.notes[i].tick = final_json.notes[j].tick
         /\ IsNote(final_json.notes[i]) /\ IsNote(final_json.notes[j])
         /\ final_json.notes[i].lane > final_json.notes[j].lane

\* ----------------------------------------------------------------- tempo

\* The absolute tick of the i-th message of the metadata track.
RECURSIVE Track0Tick(_)
Track0Tick(i) ==
    IF i = 0 THEN 0 ELSE Track0Tick(i - 1) + midi_file.tracks[1][i].time

Track0TemposAtZero ==
    {i \in 1..Len(midi_file.tracks[1]) :
        midi_file.tracks[1][i].type = "set_tempo" /\ Track0Tick(i) = 0}

ChartBuilt == pc \in {"write", "dump", "returned"}

\* C3: the header bpm is the bpm of the (first) tempo change the metadata
\* track has at tick 0, and the default 120 when it has none at tick 0; a
\* tempo change at a later tick does not set it.
C3_HeaderBpmFromTickZero ==
    ChartBuilt =>
        final_json.bpm =
            IF Track0TemposAtZero = {} THEN 120000
            ELSE Tempo2Bpm(midi_file.tracks[1][
                    CHOOSE i \in Track0TemposAtZero :
                        \A k \in Track0TemposAtZero : i <= k].tempo)

IsTempoMsg(i) == merged[i].type = "set_tempo"

FirstTempoOfItsTick(j) ==
    /\ IsTempoMsg(j)
    /\ TickAt(j) > 0
    /\ ~\E k \in 1..(j - 1) : IsTempoMsg(k) /\ TickAt(k) = TickAt(j)

RECURSIVE FirstTempos(_)
FirstTempos(n) ==
    IF n = 0 THEN <<>>
    ELSE FirstTempos(n - 1) \o
         (IF FirstTempoOfItsTick(n)
          THEN <<[type |-> "_bpm", tick |-> TickAt(n),
                  bpm |-> Tempo2Bpm(merged[n].tempo)]>>
          ELSE <<>>)

\* C4: after every message of the merged stream the tempo entries emitted so
\* far are one per tick > 0 that has a tempo change, with the bpm of the first
\* tempo change of that tick in merged order; none has tick 0.
C4_OneTempoPerTick ==
    InLoop =>
        /\ EmittedTempos = FirstTempos(Processed)
        /\ \A i \in 1..Len(EmittedTempos) : EmittedTempos[i].tick > 0
        /\ \A j \in 1..Processed :
             IsTempoMsg(j) /\ TickAt(j) > 0 =>
                Cardinality({i \in 1..Len(EmittedTempos) :
                                EmittedTempos[i].tick = TickAt(j)}) = 1

\* Two tempo changes of different bpm on one tick > 0 and one on tick 0 are
\* processed: one entry, of the first of the two.
C4_Witness ==
    /\ InLoop /\ Processed >= 3
    /\ \E i, j, k \in 1..Processed :
         /\ i < j
         /\ IsTempoMsg(i) /\ IsTempoMsg(j) /\ IsTempoMsg(k)
         /\ TickAt(k) = 0
         /\ TickAt(i) = TickAt(j) /\ TickAt(i) > 0
         /\ merged[i].tempo # merged[j].tempo
         /\ Len(EmittedTempos) = 1
         /\ EmittedTempos[1].bpm = Tempo2Bpm(merged[i].tempo)

\* -------------------------------------------------------- one step, seen

\* The message the next step of the loop processes, and its tick.
NextMsg == merged[loop_pos]

NextTick == current_tick + NextMsg.time

Stepping == pc = "loop" /\ loop_pos <= Len(merged)

\* The step appended a note to notes_data.
EmitsNote ==
    /\ Len(notes_data') = Len(notes_data) + 1
    /\ IsNote(notes_data'[Len(notes_data')])

Emitted == notes_data'[Len(notes_data')]

\* C5: an emitted note whose duration (the tick of its off message minus the
\* tick of its note-on) is greater than ticks_per_beat has type 'long' and a
\* duration field holding that duration, whatever its velocity; one whose
\* duration is at most ticks_per_beat is 'critical' when the velocity of its
\* note-on is >= 120 and 'normal' otherwise, and has no duration field.
C5_DurationDominant ==
    [][Stepping /\ EmitsNote =>
         LET start == active_notes[NextMsg.note]
             duration == NextTick - start.tick
         IN  IF duration > midi_file.ticks_per_beat
             THEN /\ Emitted.type = "long"
                  /\ "duration" \in DOMAIN Emitted
                  /\ Emitted.duration = duration
             ELSE /\ Emitted.type =
                        (IF start.velocity >= 120 THEN "critical" ELSE "normal")
                  /\ "duration" \notin DOMAIN Emitted]_vars

\* Emitted: a long note of velocity below 120, and a note of exactly
\* ticks_per_beat ticks and velocity 120, which is critical.
C5_Witness ==
    /\ InLoop
    /\ \E i, j \in 1..Len(PairedNotes(Processed)) :
         LET a == PairedNotes(Processed)[i]
             b == PairedNotes(Processed)[j]
         IN  /\ a.end - a.tick > midi_file.ticks_per_beat
             /\ a.velocity < 120
             /\ EmittedNotes[i].type = "long"
             /\ b.end - b.tick = midi_file.ticks_per_beat
             /\ b.velocity >= 120
             /\ EmittedNotes[j].type = "critical"

\* C6: every emitted note starts at a tick strictly below the tick of its off
\* message; an off message on the tick of its note-on emits nothing and still
\* removes the active state of its pitch.
C6_NoZeroDuration ==
    [][Stepping =>
         /\ EmitsNote => Emitted.tick < NextTick
         /\ ( /\ EndsNote(loop_pos)
              /\ NextMsg.note \in DOMAIN active_notes
              /\ active_notes[NextMsg.note].tick = NextTick )
            => /\ notes_data' = notes_data
               /\ NextMsg.note \notin DOMAIN active_notes']_vars

\* A note-on of 53, its off on the same tick and a later off of 53 are
\* processed: nothing emitted, no active state left.
C6_Witness ==
    /\ InLoop /\ Processed >= 3
    /\ StartsNote(1) /\ EndsNote(2) /\ EndsNote(3)
    /\ merged[1].note = 53 /\ merged[2].note = 53 /\ merged[3].note = 53
    /\ TickAt(2) = TickAt(1) /\ TickAt(3) > TickAt(2)
    /\ notes_data = <<>>
    /\ 53 \notin DOMAIN active_notes

IsNoteMsg(msg) == msg.type \in {"note_on", "note_off"}

\* C7: every emitted note has a lane in 0..6, and a note-on or note-off of a
\* pitch outside 53..59 neither creates, changes nor removes an active state
\* nor emits a note.
C7_LanesInRange ==
    /\ [](\A i \in 1..Len(notes_data) :
            IsNote(notes_data[i]) => notes_data[i].lane \in 0..6)
    /\ [][Stepping /\ IsNoteMsg(NextMsg) /\ NextMsg.note \notin LanePitches =>
            UNCHANGED <<active_notes, notes_data>>]_vars

\* Note-ons of 52 and of 60 and a note-off of 60 are processed beside a note
\* of lane 0 or 6.
C7_Witness ==
    /\ InLoop
    /\ \E i, j \in 1..Processed :
         /\ merged[i].type = "note_on" /\ merged[i].note \in {52, 60}
         /\ merged[i].velocity > 0
         /\ merged[j].type = "note_off" /\ merged[j].note = 60
    /\ \E i \in 1..Len(notes_data) :
         IsNote(notes_data[i]) /\ notes_data[i].lane \in {0, 6}

\* C10: the notes emitted for one lane do not overlap: of two of them one
\* ends at or before the tick the other starts at, so no two emitted notes
\* share lane and tick.
C10_NoOverlapInLane ==
    /\ \A i, j \in 1..Len(spans) :
         i # j /\ spans[i].lane = spans[j].lane =>
            spans[i].end <= spans[j].tick \/ spans[j].end <= spans[i].tick
    /\ \A i, j \in 1..Len(notes_data) :
         ( /\ i # j
           /\ IsNote(notes_data[i]) /\ IsNote(notes_data[j])
           /\ notes_data[i].lane = notes_data[j].lane )
         => notes_data[i].tick # notes_data[j].tick

\* Two notes of one lane are emitted, the second starting on the tick the
\* first ends at.
C10_Witness ==
    /\ Len(spans) = 2
    /\ spans[1].lane = spans[2].lane
    /\ spans[1].end = spans[2].tick

\* ------------------------------------------------------------- failures

Failed == pc = "raised"

\* C8: a conversion that fails raises a read error or a write error, nothing
\* else.
C8_OnlyReadOrWriteErrors ==
    Failed => raised \in {"IOError: read", "IOError: write"}

\* C9: a conversion that fails leaves the file at the output path as it was
\* or holding the complete serialized chart.
C9_FailsAtomically ==
    Failed =>
        \/ out_file = OldFile
        \/ out_file = [kind |-> "new", data |-> Serialize(final_json)]

====
